---- MODULE Spec2Model ----
(***************************************************************************)
(* Model of the per-image analysis pipeline of cleaning_check:            *)
(* chatgpt_cleaning_check.py (verdict engine, classification client with   *)
(* retries, _analyze_one, analyze_headless).                               *)
(*                                                                         *)
(* Text is a sequence of Unicode code points, so that Python's substring   *)
(* test and the regular expressions of the source act on the same          *)
(* characters as in the program.  Scores and thresholds are hundredths     *)
(* (0.6 is 60).  A Python dict is a function whose DOMAIN is its key set.  *)
(* Of an image only whether its bytes decode is kept ("jpeg" or            *)
(* "garbage"); pixels, quality flags and the saved bytes are left out.     *)
(*                                                                         *)
(* services.py and db.py (run_analysis_and_record and the tables it        *)
(* writes) are modelled on top of a summary of analyze_headless: what an   *)
(* invocation returns or that it raises.  The clock counts ticks, several  *)
(* to the second; timestamps are whole seconds.                            *)
(*                                                                         *)
(* Besides analyze_headless (Spec, SpecVerdict, SpecPool, SpecLive) the    *)
(* functions callers use directly have specifications of their own: the    *)
(* output name (SpecNames), the request of analyze_one (SpecRequests), the *)
(* two text stages of the verdict (SpecWords), the ZIP exports             *)
(* (SpecExport), and the run button of the web application with its quota  *)
(* check in front of the service (SpecQuota, SpecJobs).                    *)
(***************************************************************************)
EXTENDS Integers, Sequences, FiniteSets, TLC

VARIABLES
    files,        \* the batch handed to analyze_headless: <<[name, img]>>
    api_key,      \* the credential string
    thresholds,   \* the caller's thresholds dict
    defaults,     \* the caller's defaults dict (analyze_headless may add a key)
    nano,         \* the OpenAIClient built at line 381: [model_name, has_client]
    pc,           \* analyze_headless: "entry" | "pool" | "raising" | "raised" | "returned"
    fut,          \* one future per submitted image
    results,      \* the result list (appended in completion order, sorted at the end)
    summary,      \* <<>> until analyze_headless builds it, then <<summary>>
    writes,       \* the files written to the scratch directory: {[file, by]}
    blobs,        \* the (index, name) arguments of direct calls of _analyze_one
    zips,         \* the archives export_zip_ng/_ok have returned: verdict -> {paths}
    clients,      \* the OpenAIClient objects of direct analyze_one calls
    requests,     \* the keyword arguments of the requests sent to the backend
    probe,        \* the arguments and results of direct calls of the verdict engine
    now,          \* the wall clock, in ticks
    calls,        \* the invocations of run_analysis_and_record
    usage_monthly,\* table usage_monthly: (tenant, property, ym) -> [images_used, runs_used]
    run_logs,     \* the JSON run logs: (uid, job_id) -> record
    jobs,         \* table jobs: job_id -> row
    job_results   \* table job_results: the rows in insertion order

\* the state of one analyze_headless run
batch == <<files, api_key, thresholds, defaults, nano, pc, fut, results, summary>>

\* the arguments of direct _analyze_one calls, the results of the exports,
\* the clients called directly and the requests the backend has received,
\* the verdict engine called directly
direct == <<blobs, zips, clients, requests, probe>>

\* the clock, the invocations of the service and its stores
service == <<now, calls, usage_monthly, run_logs, jobs, job_results>>

vars == <<batch, writes, direct, service>>

\* ------------------------------------------------------------------ bounds
MaxFiles == 2

\* the images of a batch larger than the pool
MaxPoolFiles == 9

\* the clients called directly
MaxClients == 2

\* invocations of run_analysis_and_record, images per invocation, clock ticks
MaxCalls == 2
MaxImages == 2
MaxTicks == 2

\* the resolution of the clock
TicksPerSecond == 2

\* the quota configured for the property: cfg["quota"]["runs"] and ["images"]
RunsQuota == 1
ImagesQuota == 3

\* ------------------------------------------------------------ text helpers
\* w occurs in txt starting at position i (1-based)
IsAt(txt, w, i) ==
    /\ i >= 1
    /\ i + Len(w) - 1 <= Len(txt)
    /\ \A k \in 1..Len(w) : txt[i + k - 1] = w[k]

\* Python: w in txt
Contains(w, txt) == \E i \in 1..(Len(txt) - Len(w) + 1) : IsAt(txt, w, i)

RECURSIVE JoinWith(_, _)
\* Python: sep.join(parts)
JoinWith(sep, parts) ==
    IF Len(parts) = 0 THEN <<>>
    ELSE IF Len(parts) = 1 THEN parts[1]
    ELSE parts[1] \o sep \o JoinWith(sep, Tail(parts))

\* str.splitlines() line boundaries: \n \r \v \f \x1c \x1d \x1e \x85 U+2028 U+2029
LineBreaks == {10, 13, 11, 12, 28, 29, 30, 133, 8232, 8233}

\* str.strip() whitespace
Whitespace ==
    {9, 10, 11, 12, 13, 28, 29, 30, 31, 32, 133, 160, 5760, 8232, 8233, 8239, 8287, 12288}
        \cup (8192..8202)

RECURSIVE LStrip(_)
LStrip(t) == IF Len(t) > 0 /\ t[1] \in Whitespace THEN LStrip(Tail(t)) ELSE t

RECURSIVE RStrip(_)
RStrip(t) ==
    IF Len(t) > 0 /\ t[Len(t)] \in Whitespace THEN RStrip(SubSeq(t, 1, Len(t) - 1)) ELSE t

\* Python: t.strip()
Strip(t) == RStrip(LStrip(t))

RECURSIVE SplitFrom(_, _, _)
\* the lines of t from position i on, cur being the line read so far
SplitFrom(t, i, cur) ==
    IF i > Len(t) THEN (IF Len(cur) > 0 THEN <<cur>> ELSE <<>>)
    ELSE IF t[i] \in LineBreaks
         THEN IF t[i] = 13 /\ i < Len(t) /\ t[i + 1] = 10
              THEN <<cur>> \o SplitFrom(t, i + 2, <<>>)
              ELSE <<cur>> \o SplitFrom(t, i + 1, <<>>)
         ELSE SplitFrom(t, i + 1, Append(cur, t[i]))

\* Python: t.splitlines()
SplitLines(t) == SplitFrom(t, 1, <<>>)

\* dict.get(k, dflt)
Get(d, k, dflt) == IF k \in DOMAIN d THEN d[k] ELSE dflt

\* Python values that are not the expected type carry a tag
PyNone == [t |-> "None"]
PyList(v) == [t |-> "list", v |-> v]
PyStr(v) == [t |-> "str", v |-> v]

\* -------------------------------------------------- comment patterns (39-51)
KW ==
    { <<39658, 12398, 27611>>,   \* 髪の毛
      <<27611, 39658>>,          \* 毛髪
      <<25244, 12369, 27611>>,   \* 抜け毛
      <<12411, 12371, 12426>>,   \* ほこり
      <<12507, 12467, 12522>>,   \* ホコリ
      <<22467>> }                \* 埃

NEG ==
    { <<12394, 12356>>,   \* ない
      <<12354, 12426, 12414, 12379, 12435>>,   \* ありません
      <<28961, 12375>>,   \* 無し
      <<12394, 12375>>,   \* なし
      <<35211, 24403, 12383, 12425, 12394, 12356>>,   \* 見当たらない
      <<35211, 21463, 12369, 12425, 12428, 12414, 12379, 12435>>,   \* 見受けられません
      <<12411, 12412, 12394, 12356>>,   \* ほぼない
      <<12411, 12392, 12435, 12393, 12394, 12356>>,   \* ほとんどない
      <<23569, 12394, 12356>>,   \* 少ない
      <<30446, 31435, 12383, 12394, 12356>>,   \* 目立たない
      <<35211, 12425, 12428, 12414, 12379, 12435>>,   \* 見られません
      <<35469, 12417, 12425, 12428, 12414, 12379, 12435>>,   \* 認められません
      <<35211, 21463, 12369, 12395, 12367, 12356>>,   \* 見受けにくい
      <<30906, 35469, 12391, 12365, 12378>>,   \* 確認できず
      <<30906, 35469, 12391, 12365, 12414, 12379, 12435>> }   \* 確認できません

POS ==
    { <<28165, 28500>>,   \* 清潔
      <<28165, 25475, 29366, 24907, 12399, 33391, 22909>>,   \* 清掃状態は良好
      <<27010, 12397, 33391, 22909>>,   \* 概ね良好
      <<21839, 38988, 12394, 12375>>,   \* 問題なし
      <<33391, 22909>>,   \* 良好
      <<32186, 40599>>,   \* 綺麗
      <<12365, 12428, 12356>>,   \* きれい
      <<25972, 38931>>,   \* 整頓
      <<25972, 12360, 12425, 12428, 12390, 12356, 12427>>,   \* 整えられている
      <<28165, 28500, 24863, 12364, 12354, 12427>>,   \* 清潔感がある
      <<19981, 33258, 28982, 12394, 28857, 12399, 12394, 12356>>,   \* 不自然な点はない
      <<19981, 33258, 28982, 12373, 12399, 24863, 12376, 12425, 12428, 12394, 12356>> }
                          \* 不自然さは感じられない

\* the {0,12} of the patterns
MaxGap == 12

\* re.compile of an alternation A: its alternatives and their first characters
Alt(A) == [alts |-> A, heads |-> {a[1] : a \in A}]

\* re.compile(A + ".{0,12}" + B) and re.compile(A): one branch of a pattern
Near(A, B) == [first |-> Alt(A), near |-> TRUE, then |-> Alt(B)]
Only(A)    == [first |-> Alt(A), near |-> FALSE, then |-> Alt(A)]

\* the compiled patterns (47-51), each the set of its top-level branches
NEG_AFTER  == {Near(KW, NEG)}
NEG_BEFORE == {Near(NEG, KW)}
POS_ANY    == {Only(POS)}
POS_NEAR   == {Near(KW, POS), Near(POS, KW)}
ANY_KW     == {Only(KW)}

\* branch br matches txt from position i: an alternative of br.first at i and,
\* for a Near branch, at most MaxGap characters, none of them a newline (. does
\* not match \n), followed by an alternative of br.then
MatchAt(br, txt, i) ==
    /\ txt[i] \in br.first.heads
    /\ \E a \in br.first.alts :
         /\ IsAt(txt, a, i)
         /\ br.near =>
              \E g \in 0..MaxGap :
                LET j == i + Len(a) + g IN
                /\ j <= Len(txt)
                /\ txt[j] \in br.then.heads
                /\ \A k \in (i + Len(a))..(j - 1) : txt[k] # 10
                /\ \E b \in br.then.alts : IsAt(txt, b, j)

\* pattern.search(txt) is not None
Search(pattern, txt) == \E br \in pattern : \E i \in 1..Len(txt) : MatchAt(br, txt, i)

\* ---------------------------------------------------- verdict engine (120-139)
\* " ".join(comments)
JoinComments(comments) == JoinWith(<<32>>, comments)

\* the keyword rules tried before the OK-whitelist
RefineTextKeywordFirst(verdict, txt, ok_whitelist) ==
    IF Search(NEG_AFTER, txt) \/ Search(NEG_BEFORE, txt) \/ Search(POS_NEAR, txt)
    THEN "ok"
    ELSE IF Search(POS_ANY, txt) THEN "ok"
    ELSE IF Search(ANY_KW, txt) THEN "ng"
    ELSE IF \E n \in 1..Len(ok_whitelist) :
              Len(ok_whitelist[n]) > 0 /\ Contains(ok_whitelist[n], txt)
         THEN "ok"
    ELSE verdict

\* the text refinement without the bare-keyword rule
RefineTextNoKeyword(verdict, txt, ok_whitelist) ==
    IF \E n \in 1..Len(ok_whitelist) :
          Len(ok_whitelist[n]) > 0 /\ Contains(ok_whitelist[n], txt)
    THEN "ok"
    ELSE IF Search(NEG_AFTER, txt) \/ Search(NEG_BEFORE, txt) \/ Search(POS_NEAR, txt)
         THEN "ok"
    ELSE IF Search(POS_ANY, txt) THEN "ok"
    ELSE verdict

\* a keyword rule that turns the verdict it is given around
RefineTextFlip(verdict, txt, ok_whitelist) ==
    IF \E n \in 1..Len(ok_whitelist) :
          Len(ok_whitelist[n]) > 0 /\ Contains(ok_whitelist[n], txt)
    THEN "ok"
    ELSE IF Search(NEG_AFTER, txt) \/ Search(NEG_BEFORE, txt) \/ Search(POS_NEAR, txt)
         THEN "ok"
    ELSE IF Search(POS_ANY, txt) THEN "ok"
    ELSE IF Search(ANY_KW, txt) THEN (IF verdict = "ng" THEN "ok" ELSE "ng")
    ELSE verdict

\* the text refinement without the positive-phrase rule of line 127
RefineTextNoPositive(verdict, txt, ok_whitelist) ==
    IF \E n \in 1..Len(ok_whitelist) :
          Len(ok_whitelist[n]) > 0 /\ Contains(ok_whitelist[n], txt)
    THEN "ok"
    ELSE IF Search(NEG_AFTER, txt) \/ Search(NEG_BEFORE, txt) \/ Search(POS_NEAR, txt)
         THEN "ok"
    ELSE IF Search(ANY_KW, txt) THEN "ng"
    ELSE verdict

\* lines 122-131 on the joined text
RefineText(verdict, txt, ok_whitelist) ==
    IF \E n \in 1..Len(ok_whitelist) :
          Len(ok_whitelist[n]) > 0 /\ Contains(ok_whitelist[n], txt)
    THEN "ok"
    ELSE IF Search(NEG_AFTER, txt) \/ Search(NEG_BEFORE, txt) \/ Search(POS_NEAR, txt)
         THEN "ok"
    ELSE IF Search(POS_ANY, txt) THEN "ok"
    ELSE IF Search(ANY_KW, txt) THEN "ng"
    ELSE verdict

refine_verdict_by_text(verdict, comments, ok_whitelist) ==
    RefineText(verdict, JoinComments(comments), ok_whitelist)

\* a recheck loop that tests every entry, the empty string included
ForceTextEveryEntry(verdict, txt, ws) ==
    IF \E n \in 1..Len(ws) : Contains(ws[n], txt)
    THEN "unknown"
    ELSE verdict

\* lines 136-139 on the joined text
ForceText(verdict, txt, ws) ==
    IF \E n \in 1..Len(ws) : Len(ws[n]) > 0 /\ Contains(ws[n], txt)
    THEN "unknown"
    ELSE verdict

\* recheck_words is the tagged value of thresholds["RECHECK_WHITELIST"];
\* "recheck_words or []" makes None and the empty list the empty list
force_recheck_by_text(verdict, comments, recheck_words) ==
    ForceText(verdict, JoinComments(comments),
              IF recheck_words.t = "list" THEN recheck_words.v ELSE <<>>)

\* ------------------------------------------------ OpenAIClient (142-221)
\* a client built for any non-empty key, blank or not
OpenAIClientNoStrip(model_name, key) ==
    [model_name |-> Strip(model_name), has_client |-> Len(key) > 0]

\* __init__: model_name and api_key are stripped; a client object exists
\* only for a non-empty key
OpenAIClient(model_name, key) ==
    [model_name |-> Strip(model_name), has_client |-> Len(Strip(key)) > 0]

\* availability decided by the client object alone
available_any_model(c) == c.has_client

available(c) == c.has_client /\ Len(c.model_name) > 0

\* str.lower() on the letters A-Z (the model names used are ASCII)
Lower(t) == [n \in 1..Len(t) |-> IF t[n] \in 65..90 THEN t[n] + 32 ELSE t[n]]

Nano == <<110, 97, 110, 111>>     \* nano
Mini == <<109, 105, 110, 105>>    \* mini

\* the name compared as it is written
supports_temperature_cased(c) ==
    ~(Contains(Nano, c.model_name) \/ Contains(Mini, c.model_name))

\* lines 165-167
supports_temperature(c) ==
    LET m == Lower(c.model_name)
    IN  ~(Contains(Nano, m) \/ Contains(Mini, m))

\* 0.2, in hundredths
Temperature == 20

\* lines 217-219: the keyword arguments of chat.completions.create, without
\* the messages (the fixed prompt and the image)
Request(c) ==
    [model |-> c.model_name, response_format |-> "json_object"]
        @@ (IF supports_temperature(c) THEN [temperature |-> Temperature]
            ELSE [k \in {} |-> 0])

\* stop_after_attempt(3)
MaxAttempts == 3

\* a retry condition that covers transport errors only: a response that does
\* not parse ("Expecting value") is raised at once
RetryStepTransportOnly(made, outcome) ==
    IF outcome.k = "ok" THEN [k |-> "return", v |-> outcome.v]
    ELSE IF made + 1 >= 3 \/ outcome.e[1] = 69 THEN [k |-> "raise", e |-> outcome.e]
    ELSE [k |-> "retry"]

\* a retry wrapper that gives up one attempt later
RetryStepOneMore(made, outcome) ==
    IF outcome.k = "ok" THEN [k |-> "return", v |-> outcome.v]
    ELSE IF made + 1 < MaxAttempts + 1 THEN [k |-> "retry"]
    ELSE [k |-> "raise", e |-> outcome.e]

\* the retry wrapper after one more attempt of the remote call has ended with
\* `outcome` ([k |-> "ok", v |-> response] or [k |-> "err", e |-> text]), `made`
\* attempts having been made before it: analyze_one returns the parsed
\* response, raises the last exception (reraise=True), or tries again
RetryStep(made, outcome) ==
    IF outcome.k = "ok" THEN [k |-> "return", v |-> outcome.v]
    ELSE IF made + 1 >= MaxAttempts THEN [k |-> "raise", e |-> outcome.e]
    ELSE [k |-> "retry"]

\* wait_exponential(multiplier=1, min=1, max=30)
WaitMultiplier == 1
WaitMin == 1
WaitMax == 30

RECURSIVE Pow2(_)
Pow2(n) == IF n <= 0 THEN 1 ELSE 2 * Pow2(n - 1)

\* a backoff whose exponent is the number of the failed attempt
wait_exponential_late(attempt_number) ==
    IF WaitMultiplier * Pow2(attempt_number) > WaitMax THEN WaitMax
    ELSE IF WaitMultiplier * Pow2(attempt_number) < WaitMin THEN WaitMin
    ELSE WaitMultiplier * Pow2(attempt_number)

\* the delay the retry wrapper sleeps after the failed attempt number
\* attempt_number (1 for the first): multiplier * 2^(attempt_number - 1),
\* kept between min and max
wait_exponential(attempt_number) ==
    IF WaitMultiplier * Pow2(attempt_number - 1) > WaitMax THEN WaitMax
    ELSE IF WaitMultiplier * Pow2(attempt_number - 1) < WaitMin THEN WaitMin
    ELSE WaitMultiplier * Pow2(attempt_number - 1)

\* ------------------------------------------------------ _analyze_one (225-308)
PyDict(v) == [t |-> "dict", v |-> v]

\* "（ドライラン）APIキー未設定のため実解析は未実施"
DryRunComment ==
    <<65288, 12489, 12521, 12452, 12521, 12531, 65289, 65, 80, 73, 12461, 12540, 26410,
      35373, 23450, 12398, 12383, 12417, 23455, 35299, 26512, 12399, 26410, 23455, 26045>>

\* the response substituted when the client is not available (261-265)
DryRunResponse ==
    [labels |-> <<>>, scores |-> PyDict([quality |-> 0]),
     comments |-> PyList(<<DryRunComment>>), presence |-> PyDict(<<>>)]

\* the failure placeholder without the exception's text
FailedResponseNoText(e) ==
    [labels |-> <<>>, scores |-> PyDict([quality |-> 0]),
     comments |-> PyList(<< <<110, 97, 110, 111, 22833, 25943>> >>),
     presence |-> PyDict(<<>>)]

\* a failure placeholder that carries the highest score
FailedResponseFullScore(e) ==
    [labels |-> <<>>, scores |-> PyDict([quality |-> 100]),
     comments |-> PyList(<< <<110, 97, 110, 111, 22833, 25943, 58, 32>> \o e >>),
     presence |-> PyDict(<<>>)]

\* the response substituted when analyze_one raised e (266-267): "nano失敗: {e}"
FailedResponse(e) ==
    [labels |-> <<>>, scores |-> PyDict([quality |-> 0]),
     comments |-> PyList(<< <<110, 97, 110, 111, 22833, 25943, 58, 32>> \o e >>),
     presence |-> PyDict(<<>>)]

\* a JSON number, and a JSON object whose values are tagged JSON values of any
\* kind; PyDict(f) is the object whose values are the numbers f[k]
PyNum(v) == [t |-> "num", v |-> v]
PyObject(v) == [t |-> "object", v |-> v]

\* json.loads returned a JSON object (with the four keys, in this catalogue)
\* and not a list, a string, a number or null
IsObject(d) == "scores" \in DOMAIN d

\* float(x) at line 270 raises for None, a list, an object and a string that
\* is not the text of a number (no string of the catalogue is)
FloatRaises(x) == x.t # "num"

\* lines 269-272 raise: d.get on a value that is not an object, or float()
\* on a score value that is not a number; both are outside the try block
NormalizeRaises(d) ==
    \/ ~IsObject(d)
    \/ /\ d.scores.t = "object"
       /\ \E k \in DOMAIN d.scores.v : FloatRaises(d.scores.v[k])

\* lines 270-272: a field of the wrong type is replaced by an empty one
NormScores(d) ==
    IF d.scores.t = "dict" THEN d.scores.v
    ELSE IF d.scores.t = "object" THEN [k \in DOMAIN d.scores.v |-> d.scores.v[k].v]
    ELSE <<>>
NormComments(d) == IF d.comments.t = "list" THEN d.comments.v ELSE <<>>
NormPresence(d) == IF d.presence.t = "dict" THEN d.presence.v ELSE <<>>

\* 0.6, the threshold when neither dict has conf_th (line 275)
DefaultConfTh == 60

ConfTh(th, df) == Get(df, "conf_th", Get(th, "conf_th", DefaultConfTh))

\* a score has to exceed the threshold
ScoreVerdictStrict(scores, th) ==
    IF \E k \in DOMAIN scores : scores[k] > th THEN "ng" ELSE "ok"

\* line 276
ScoreVerdict(scores, th) ==
    IF \E k \in DOMAIN scores : scores[k] >= th THEN "ng" ELSE "ok"

\* _split_lines (279-280)
split_lines(t) ==
    LET ls == SplitLines(t)
        stripped == [n \in 1..Len(ls) |-> Strip(ls[n])]
    IN  SelectSeq(stripped, LAMBDA ln : Len(ln) > 0)

\* lines 281-283: global whitelist first, then the property's
OkWhitelist(df) ==
    split_lines(Get(df, "ok_whitelist_global", <<>>))
        \o split_lines(Get(df, "ok_whitelist", <<>>))

\* line 286
RecheckWords(th) == Get(th, "RECHECK_WHITELIST", PyList(<<>>))

\* the forced recheck applied before the text refinement
FinalVerdictRecheckFirst(scores, comments, th, df) ==
    LET v1 == ScoreVerdict(scores, ConfTh(th, df))
        v2 == force_recheck_by_text(v1, comments, RecheckWords(th))
    IN  refine_verdict_by_text(v2, comments, OkWhitelist(df))

\* lines 274-287: the three stages
FinalVerdict(scores, comments, th, df) ==
    LET v1 == ScoreVerdict(scores, ConfTh(th, df))
        v2 == refine_verdict_by_text(v1, comments, OkWhitelist(df))
    IN  force_recheck_by_text(v2, comments, RecheckWords(th))

RECURSIVE Digits(_)
\* the decimal digits of n >= 0
Digits(n) == IF n < 10 THEN <<48 + n>> ELSE Digits(n \div 10) \o <<48 + (n % 10)>>

RECURSIVE ZeroPad(_, _)
ZeroPad(t, w) == IF Len(t) >= w THEN t ELSE ZeroPad(<<48>> \o t, w)

\* f"{index:04d}"
Fmt04(index) == ZeroPad(Digits(index), 4)

RECURSIVE basename(_)
\* os.path.basename: what follows the last "/"
basename(p) ==
    IF \E k \in 1..Len(p) : p[k] = 47
    THEN basename(SubSeq(p, (CHOOSE k \in 1..Len(p) : p[k] = 47) + 1, Len(p)))
    ELSE p

\* the index and the name put together without the separator
SafeNameNoSeparator(index, name) ==
    LET dflt == Fmt04(index) \o <<46, 106, 112, 103>>
        src  == basename(IF Len(name) > 0 THEN name ELSE dflt)
    IN  Fmt04(index) \o src

\* lines 236-238 and 290: the (name, bytes) tuple form of the input
SafeName(index, name) ==
    LET dflt == Fmt04(index) \o <<46, 106, 112, 103>>          \* "NNNN.jpg"
        src  == basename(IF Len(name) > 0 THEN name ELSE dflt)
    IN  Fmt04(index) \o <<95>> \o src

\* lines 289-296: the normalised image is written to base_dir under the
\* safe name (a failed write is swallowed and is left out here)
Saved(dir, index, name) == dir \cup {[file |-> SafeName(index, name), by |-> index]}

\* an ImageResult built from a response buffer that the workers share: the
\* response image 0 received, once there is one
MakeResultShared(index, name, d, th, df) ==
    LET buf == IF 0 \in DOMAIN fut /\ fut[0].ret # <<>> /\ fut[0].ret[1].k = "return"
               THEN fut[0].ret[1].v
               ELSE d
    IN  [index    |-> index,
         file     |-> SafeName(index, name),
         labels   |-> buf.labels,
         scores   |-> NormScores(buf),
         comments |-> NormComments(buf),
         verdict  |-> FinalVerdict(NormScores(buf), NormComments(buf), th, df),
         stage    |-> "nano",
         presence |-> NormPresence(buf)]

\* lines 269-308: the ImageResult built from the response d
MakeResult(index, name, d, th, df) ==
    [index    |-> index,
     file     |-> SafeName(index, name),
     labels   |-> d.labels,
     scores   |-> NormScores(d),
     comments |-> NormComments(d),
     verdict  |-> FinalVerdict(NormScores(d), NormComments(d), th, df),
     stage    |-> "nano",
     presence |-> NormPresence(d)]

\* -------------------------------------------------- analyze_headless (367-417)
\* line 388 caps the pool at 8 workers
PoolCap == 8

Min(a, b) == IF a < b THEN a ELSE b
Max(a, b) == IF a > b THEN a ELSE b

\* one worker per image, however many
max_workers_uncapped(n) == Max(1, n)

max_workers(n) == Max(1, Min(PoolCap, n))

RECURSIVE InsertByIndex(_, _)
\* r put after every element whose index is <= r.index (list.sort is stable)
InsertByIndex(r, sorted) ==
    IF Len(sorted) = 0 THEN <<r>>
    ELSE IF sorted[1].index <= r.index
         THEN <<sorted[1]>> \o InsertByIndex(r, Tail(sorted))
         ELSE <<r>> \o sorted

\* the list left in completion order
SortByIndexKeep(rs) == rs

RECURSIVE SortByIndex(_)
\* line 395: results.sort(key=lambda x: x.get("index", 0))
SortByIndex(rs) ==
    IF Len(rs) = 0 THEN <<>>
    ELSE InsertByIndex(rs[Len(rs)], SortByIndex(SubSeq(rs, 1, Len(rs) - 1)))

\* Python truthiness instead of the boolean test
IsTruthy(v) == v \in {"True", "1", "yes"}

\* line 403: isinstance(v, bool) and v.  Presence values are the JSON values
\* "True", "False", "None", and the non-booleans "1" (a number) and "yes" (a string)
IsBoolTrue(v) == v = "True"

AmenityKeys == {"key", "wifi", "heater", "tv"}

RECURSIVE Evidence(_, _)
\* lines 399-404 for one amenity key: the indices, in list order, of the
\* results whose presence[k] is boolean true
Evidence(rs, k) ==
    IF Len(rs) = 0 THEN <<>>
    ELSE (IF k \in DOMAIN rs[1].presence /\ IsBoolTrue(rs[1].presence[k])
          THEN <<rs[1].index>> ELSE <<>>) \o Evidence(Tail(rs), k)

\* a count of the distinct verdicts equal to v instead of the results having it
CountVerdictSet(rs, v) == Cardinality({rs[n].verdict : n \in {m \in 1..Len(rs) : rs[m].verdict = v}})

CountVerdict(rs, v) == Cardinality({n \in 1..Len(rs) : rs[n].verdict = v})
CountStage(rs, st)  == Cardinality({n \in 1..Len(rs) : rs[n].stage = st})

\* lines 406-416
MakeSummary(rs) ==
    [ok      |-> CountVerdict(rs, "ok"),
     ng      |-> CountVerdict(rs, "ng"),
     unknown |-> CountVerdict(rs, "unknown"),
     counts_by_stage   |-> [st \in {"nano", "mini", "full"} |-> CountStage(rs, st)],
     presence_evidence |-> [k \in AmenityKeys |-> Evidence(rs, k)]]

\* lines 378-379: defaults.setdefault("ok_whitelist_global", "\n".join(OK_WHITELIST))
SetDefaultGlobal(th, df) ==
    IF "OK_WHITELIST" \in DOMAIN th /\ th["OK_WHITELIST"].t = "list"
       /\ "ok_whitelist_global" \notin DOMAIN df
    THEN df @@ ("ok_whitelist_global" :> JoinWith(<<10>>, th["OK_WHITELIST"].v))
    ELSE df

\* ------------------------------------------------------------- catalogue
\* The inputs the model draws from.  Texts:
TxClean    == <<28165, 28500>>                                  \* 清潔
TxHair     == <<39658, 12398, 27611, 12364, 20184, 30528>>      \* 髪の毛が付着
TxRecheck  == <<35201, 30906, 35469, 58, 32, 39658, 12398, 27611, 12354, 12426>>
                                                                \* 要確認: 髪の毛あり
TxNoHair   == <<39658, 12398, 27611, 12399, 12354, 12426, 12414, 12379, 12435>>
                                                                \* 髪の毛はありません
TxNotSeen  == <<39658, 12398, 27611, 12399, 35211, 24403, 12383, 12426, 12414, 12379, 12435>>
                                                                \* 髪の毛は見当たりません
TxBed      == <<12505, 12483, 12489, 12513, 12452, 12463, 23436, 20102>>  \* ベッドメイク完了
TxDust     == <<22467>>                                         \* 埃
TxNone     == <<12394, 12375>>                                  \* なし
TxGap12    == <<22467>> \o [n \in 1..MaxGap |-> 120] \o <<12394, 12375>>       \* 埃 x*12 なし
TxGap13    == <<22467>> \o [n \in 1..(MaxGap + 1) |-> 120] \o <<12394, 12375>> \* 埃 x*13 なし
TxStuck    == <<20184, 30528, 29289, 12354, 12426>>             \* 付着物あり
TxFarDust  == [n \in 1..(MaxGap + 1) |-> 120] \o <<22467>>      \* x*13 埃
TxGood     == <<33391, 22909>>                                  \* 良好
TxNewline  == <<22467, 10, 12394, 12375>>                       \* 埃 \n なし
WdRecheck  == <<35201, 30906, 35469>>                           \* 要確認
WdStuck    == <<20184, 30528>>                                  \* 付着
WdAri      == <<12354, 12426>>                                  \* あり

NameA == <<97, 46, 106, 112, 103>>                              \* a.jpg
KeySk == <<115, 107, 45, 116, 101, 115, 116>>                   \* sk-test
ModelNano == <<103, 112, 116, 45, 53, 45, 110, 97, 110, 111>>   \* gpt-5-nano

\* what str(e) may be for a failed attempt: a transport error, a JSON parse error
ErrTexts ==
    { <<116, 105, 109, 101, 111, 117, 116>>,                                         \* timeout
      <<69, 120, 112, 101, 99, 116, 105, 110, 103, 32, 118, 97, 108, 117, 101>> }    \* Expecting value

\* failure texts that the text rules react to: 髪の毛が付着 and 要確認
WideErrTexts ==
    ErrTexts \cup { <<39658, 12398, 27611, 12364, 20184, 30528>>, <<35201, 30906, 35469>> }

\* the failure texts a call may end with: the wider set for a batch of one image
Errors(n) == IF n = 1 THEN WideErrTexts ELSE ErrTexts

Response(l, s, c, p) == [labels |-> l, scores |-> s, comments |-> c, presence |-> p]

\* three responses, one per verdict under BatchThresholds, with the kinds of
\* presence value
NarrowReplies ==
    { Response(<<>>, PyDict([quality |-> 10]), PyList(<<TxClean>>),
               PyDict([key |-> "None", wifi |-> "False", heater |-> "True"])),
      Response(<<"hair_dust">>, PyDict([hair_dust |-> 90]), PyList(<<TxHair>>),
               PyDict([key |-> "True", heater |-> "True", wifi |-> "yes", tv |-> "1"])),
      Response(<<>>, PyDict([quality |-> 90]), PyList(<<TxRecheck>>), PyList(<<>>)) }

WideScores ==
    { PyDict(<<>>), PyDict([quality |-> 0]), PyDict([quality |-> 60]),
      PyDict([hair_dust |-> 90, quality |-> 10]) }

WideComments ==
    { PyList(<<>>), PyList(<<TxClean>>), PyList(<<TxHair>>), PyList(<<TxRecheck>>),
      PyList(<<TxNoHair>>), PyList(<<TxNotSeen>>), PyList(<<TxBed>>),
      PyList(<<TxDust, TxNone>>), PyList(<<TxGap12>>), PyList(<<TxGap13>>),
      PyList(<<TxStuck>>), PyList(<<TxGood, TxFarDust>>), PyList(<<TxNewline>>) }

\* every pair of the two, one response whose fields have the wrong types,
\* and the JSON values [], {"scores": {"quality": "high"}, ...} and
\* {"scores": {"quality": null, "hair_dust": 0.9}, ...}
WideReplies ==
    { Response(<<>>, s, c, PyDict([tv |-> "True"])) : s \in WideScores, c \in WideComments }
        \cup { Response(<<>>, PyNone, PyStr(TxHair), PyList(<<>>)) }
        \cup { PyList(<<>>),
               Response(<<>>, PyObject([quality |-> PyStr(<<104, 105, 103, 104>>)]),
                        PyList(<<TxClean>>), PyDict(<<>>)),
               Response(<<>>, PyObject([quality |-> PyNone, hair_dust |-> PyNum(90)]),
                        PyList(<<TxClean>>), PyDict(<<>>)) }

\* the responses the backend may give: the whole catalogue to a batch of one
\* image, the three representative ones to each image of a larger batch
Replies(n) == IF n = 1 THEN WideReplies ELSE NarrowReplies

FileInputs == [name : {NameA, <<>>}, img : {"jpeg", "garbage"}]

BatchThresholds ==
    [conf_th |-> 80, OK_WHITELIST |-> PyList(<<WdRecheck>>),
     RECHECK_WHITELIST |-> PyList(<<WdRecheck>>)]

BatchDefaults == [conf_th |-> 80]

NoKeys == [k \in {} |-> 0]

WideThresholds ==
    { a @@ b @@ c :
        a \in {NoKeys, [conf_th |-> 80]},
        b \in {NoKeys, [OK_WHITELIST |-> PyList(<<WdRecheck>>)],
               [OK_WHITELIST |-> PyList(<< <<>>, WdStuck >>)]},
        c \in {NoKeys, [RECHECK_WHITELIST |-> PyNone],
               [RECHECK_WHITELIST |-> PyList(<< <<>> >>)],
               [RECHECK_WHITELIST |-> PyList(<<WdRecheck>>)],
               [RECHECK_WHITELIST |-> PyList(<<WdAri, WdStuck>>)]} }

WideDefaults ==
    { NoKeys, [conf_th |-> 50], [conf_th |-> 0], [ok_whitelist_global |-> <<120>>],
      [ok_whitelist |-> <<20184, 30528, 10, 32, 12354, 12426, 32>>] }   \* "付着\n あり "

\* ------------------------------------------------------------ the machine
N == Len(files)

Indices == 0..(N - 1)

\* a submitted future: attempts counts the remote calls made for the image,
\* last is the outcome of the latest one, ret what analyze_one returned or
\* raised, out the result of _analyze_one, order the position at which
\* as_completed handed the future over (0: not yet), waits the delays the
\* retry wrapper has slept between the attempts
Queued == [st |-> "queued", attempts |-> 0, last |-> <<>>, ret |-> <<>>, out |-> <<>>,
           order |-> 0, waits |-> <<>>]

Collected(i) == fut[i].order > 0

Finished(i) == fut[i].st \in {"done", "failed"}

InProgress == {i \in DOMAIN fut : fut[i].st \in {"running", "calling"}}

\* what one attempt of the remote call (lines 220-221) can end with: a parsed
\* JSON response, or an exception (transport error, json.loads error)
Outcomes ==
    {[k |-> "ok", v |-> r] : r \in Replies(N)} \cup {[k |-> "err", e |-> e] : e \in Errors(N)}

\* line 382: the second client, built with an empty model name from the same
\* key and handed to every pipeline, none of which uses it
mini == OpenAIClient(<<>>, api_key)

\* lines 375-390: the configuration is completed, the clients are built and
\* every image is submitted to the pool
Enter ==
    /\ pc = "entry"
    /\ defaults' = SetDefaultGlobal(thresholds, defaults)
    /\ nano' = OpenAIClient(ModelNano, api_key)
    /\ fut' = [i \in Indices |-> Queued]
    /\ pc' = "pool"
    /\ UNCHANGED <<files, api_key, thresholds, results, summary>>
    /\ UNCHANGED <<writes, direct, service>>

\* a free worker takes the oldest queued task (the pool's queue is FIFO); the
\* pool keeps working while the with-block waits for it after an exception
Start(i) ==
    /\ pc \in {"pool", "raising"}
    /\ fut[i].st = "queued"
    /\ \A j \in Indices : j < i => fut[j].st # "queued"
    /\ Cardinality(InProgress) < max_workers(N)
    /\ fut' = [fut EXCEPT ![i].st = "running"]
    /\ UNCHANGED <<files, api_key, thresholds, defaults, nano, pc, results, summary>>
    /\ UNCHANGED <<writes, direct, service>>

\* lines 235-265: the image is decoded and re-encoded; a decode error leaves
\* _analyze_one as an exception; without an available client the dry-run
\* response is used and the pipeline runs to its end
Normalize(i) ==
    /\ pc \in {"pool", "raising"}
    /\ fut[i].st = "running"
    /\ fut' = [fut EXCEPT ![i] =
          IF files[i + 1].img # "jpeg" THEN [@ EXCEPT !.st = "failed"]
          ELSE IF ~available(nano)
               THEN [@ EXCEPT !.st = "done",
                              !.out = <<MakeResult(i, files[i + 1].name, DryRunResponse,
                                                   thresholds, defaults)>>]
               ELSE [@ EXCEPT !.st = "calling"]]
    /\ writes' = IF files[i + 1].img = "jpeg" /\ ~available(nano)
                 THEN Saved(writes, i, files[i + 1].name)
                 ELSE writes
    /\ UNCHANGED <<files, api_key, thresholds, defaults, nano, pc, results, summary>>
    /\ UNCHANGED <<direct, service>>

\* lines 169-221 and 259-308: one attempt of the remote call ends; the retry
\* wrapper sleeps and tries again, or analyze_one returns or raises and the pipeline
\* runs to its end with the response or with the failure placeholder, unless
\* the normalisation of the response raises, which ends it with an exception
Attempt(i) ==
    /\ pc \in {"pool", "raising"}
    /\ fut[i].st = "calling"
    /\ \E outcome \in Outcomes :
         LET step == RetryStep(fut[i].attempts, outcome)
             d    == IF step.k = "return" THEN step.v ELSE FailedResponse(step.e)
         IN  /\ fut' = [fut EXCEPT ![i] =
                   IF step.k = "retry"
                   THEN [@ EXCEPT !.attempts = @ + 1, !.last = <<outcome>>,
                                  !.waits = Append(@, wait_exponential(fut[i].attempts + 1))]
                   ELSE IF NormalizeRaises(d)
                   THEN [@ EXCEPT !.attempts = @ + 1, !.last = <<outcome>>,
                                  !.ret = <<step>>, !.st = "failed"]
                   ELSE [@ EXCEPT !.attempts = @ + 1, !.last = <<outcome>>,
                                  !.ret = <<step>>, !.st = "done",
                                  !.out = <<MakeResult(i, files[i + 1].name, d,
                                                       thresholds, defaults)>>]]
             /\ writes' = IF step.k = "retry" \/ NormalizeRaises(d) THEN writes
                          ELSE Saved(writes, i, files[i + 1].name)
    /\ requests' = requests \cup {Request(nano)}
    /\ UNCHANGED <<files, api_key, thresholds, defaults, nano, pc, results, summary>>
    /\ UNCHANGED <<blobs, zips, clients, probe, service>>

\* lines 391-394: as_completed hands over a finished future; fu.result()
\* returns its result, which is appended, or raises its exception, which
\* leaves the loop
Collect(i) ==
    /\ pc = "pool"
    /\ Finished(i)
    /\ ~Collected(i)
    /\ fut' = [fut EXCEPT ![i].order = Cardinality({j \in Indices : Collected(j)}) + 1]
    /\ IF fut[i].st = "done"
       THEN results' = Append(results, fut[i].out[1]) /\ pc' = pc
       ELSE results' = results /\ pc' = "raising"
    /\ UNCHANGED <<files, api_key, thresholds, defaults, nano, summary>>
    /\ UNCHANGED <<writes, direct, service>>

\* the with-block's exit after an exception: shutdown(wait=True) returns when
\* every submitted task has ended, then the exception leaves analyze_headless
Unwind ==
    /\ pc = "raising"
    /\ \A i \in Indices : Finished(i)
    /\ pc' = "raised"
    /\ UNCHANGED <<files, api_key, thresholds, defaults, nano, fut, results, summary>>
    /\ UNCHANGED <<writes, direct, service>>

\* lines 395-417: every future was collected; sort, aggregate, return
Return ==
    /\ pc = "pool"
    /\ \A i \in Indices : Collected(i)
    /\ results' = SortByIndex(results)
    /\ summary' = <<MakeSummary(results')>>
    /\ pc' = "returned"
    /\ UNCHANGED <<files, api_key, thresholds, defaults, nano, fut>>
    /\ UNCHANGED <<writes, direct, service>>

\* an invocation of run_analysis_and_record that has not begun
Idle == [st |-> "idle", uid |-> "", images |-> 0, ts_start |-> 0, job_id |-> <<>>,
         results |-> <<>>, ts_end |-> 0]

Keys == {<<>>, <<32>>, KeySk}

Batches == UNION {[1..n -> FileInputs] : n \in 0..MaxFiles}

\* no invocation of the service has begun, its stores are empty
InitService ==
    /\ now = 0
    /\ calls = [c \in 1..MaxCalls |-> Idle]
    /\ usage_monthly = NoKeys
    /\ run_logs = NoKeys
    /\ jobs = NoKeys
    /\ job_results = <<>>

InitCommon ==
    /\ nano = [model_name |-> <<>>, has_client |-> FALSE]
    /\ pc = "entry"
    /\ fut = <<>>
    /\ results = <<>>
    /\ summary = <<>>
    /\ writes = {}
    /\ blobs = <<>>
    /\ zips = NoKeys
    /\ clients = <<>>
    /\ requests = {}
    /\ probe = <<>>
    /\ InitService

\* a batch of up to MaxFiles images under the web application's configuration
Init ==
    /\ files \in Batches
    /\ api_key \in Keys
    /\ thresholds = BatchThresholds
    /\ defaults = BatchDefaults
    /\ InitCommon

\* one image under every configuration of the catalogue
InitVerdict ==
    /\ files \in {<<[name |-> NameA, img |-> k]>> : k \in {"jpeg", "garbage"}}
    /\ api_key \in {KeySk, <<>>}
    /\ thresholds \in WideThresholds
    /\ defaults \in WideDefaults
    /\ InitCommon

Next ==
    \/ Enter
    \/ \E i \in Indices : Start(i)
    \/ \E i \in Indices : Normalize(i)
    \/ \E i \in Indices : Attempt(i)
    \/ \E i \in Indices : Collect(i)
    \/ Unwind
    \/ Return

Spec == Init /\ [][Next]_vars

SpecVerdict == InitVerdict /\ [][Next]_vars

\* the a-th remote call of image i is in flight
InFlight(i, a) == i \in DOMAIN fut /\ fut[i].st = "calling" /\ fut[i].attempts = a

\* the scheduling the code relies on: the thread that called analyze_headless
\* runs, a pool worker takes a queued task when it is free, a running worker
\* goes on, and no remote call stays in flight for ever (each returns or
\* raises)
Fairness ==
    /\ WF_vars(Enter)
    /\ WF_vars(\E i \in Indices : Start(i))
    /\ WF_vars(\E i \in Indices : Normalize(i))
    /\ WF_vars(\E i \in Indices : Collect(i))
    /\ WF_vars(Unwind)
    /\ WF_vars(Return)
    /\ \A i \in 0..(MaxFiles - 1) : \A a \in 0..(MaxAttempts - 1) : []<>~InFlight(i, a)

\* batches of up to MaxFiles images, each of which decodes or does not,
\* with a key that makes the client available
InitLive ==
    /\ files \in UNION {[1..n -> [name : {NameA}, img : {"jpeg", "garbage"}]] : n \in 0..MaxFiles}
    /\ api_key = KeySk
    /\ thresholds = BatchThresholds
    /\ defaults = BatchDefaults
    /\ InitCommon

SpecLive == InitLive /\ [][Next]_vars /\ Fairness

\* --------------------------------------- direct calls of analyze_one
ModelNames ==
    { ModelNano,
      <<103, 112, 116, 45, 52, 111, 45, 109, 105, 110, 105>>,      \* gpt-4o-mini
      <<103, 112, 116, 45, 52, 111>>,                                \* gpt-4o
      <<71, 80, 84, 45, 53, 45, 78, 65, 78, 79>>,                    \* GPT-5-NANO
      <<71, 112, 116, 45, 52, 111, 45, 77, 105, 110, 105>>,          \* Gpt-4o-Mini
      <<32, 103, 112, 116, 45, 53, 32>>,                             \* " gpt-5 "
      <<111, 51>>,                                                   \* o3
      <<109, 105, 110, 105, 109, 97, 108>>,                          \* minimal
      <<110, 97, 110>>,                                              \* nan
      <<>> }

\* up to MaxClients clients built with a usable key
ClientLists ==
    UNION {[1..n -> {[client |-> OpenAIClient(m, KeySk), called |-> FALSE] : m \in ModelNames}]
             : n \in 0..MaxClients}

\* lines 175-219 for clients[k]: an unavailable client raises before any
\* request, an available one sends its request
DirectCall(k) ==
    /\ ~clients[k].called
    /\ clients' = [clients EXCEPT ![k].called = TRUE]
    /\ requests' = IF available(clients[k].client)
                   THEN requests \cup {Request(clients[k].client)}
                   ELSE requests
    /\ UNCHANGED <<batch, writes, blobs, zips, probe, service>>

\* either a batch for analyze_headless or clients to be called directly
InitRequests ==
    /\ files \in UNION {[1..n -> [name : {NameA}, img : {"jpeg", "garbage"}]] : n \in 0..MaxFiles}
    /\ api_key = KeySk
    /\ thresholds = BatchThresholds
    /\ defaults = BatchDefaults
    /\ nano = [model_name |-> <<>>, has_client |-> FALSE]
    /\ pc = "entry"
    /\ fut = <<>>
    /\ results = <<>>
    /\ summary = <<>>
    /\ writes = {}
    /\ blobs = <<>>
    /\ zips = NoKeys
    /\ clients \in ClientLists
    /\ files # <<>> => clients = <<>>
    /\ requests = {}
    /\ probe = <<>>
    /\ InitService

NextRequests ==
    \/ Next
    \/ \E k \in DOMAIN clients : DirectCall(k)

SpecRequests == InitRequests /\ [][NextRequests]_vars

\* --------------------------------- direct calls of the verdict engine
\* whitelists with empty entries, and what RECHECK_WHITELIST may be
OkLists == { <<>>, << <<>> >>, << <<>>, <<>> >>, <<WdStuck>>, << <<>>, WdStuck >> }

RecheckValues ==
    { PyNone, PyList(<<>>), PyList(<< <<>> >>), PyList(<<WdRecheck>>),
      PyList(<< <<>>, WdAri >>) }

Probes ==
    [verdict : {"ok", "ng", "unknown"}, comments : {c.v : c \in WideComments},
     ok_whitelist : OkLists, recheck_words : RecheckValues,
     refined : {<<>>}, forced : {<<>>}]

\* refine_verdict_by_text(verdict, comments, ok_whitelist) is called
Refine ==
    /\ probe.refined = <<>>
    /\ probe' = [probe EXCEPT !.refined =
                    <<refine_verdict_by_text(probe.verdict, probe.comments,
                                             probe.ok_whitelist)>>]
    /\ UNCHANGED <<batch, writes, blobs, zips, clients, requests, service>>

\* force_recheck_by_text(verdict, comments, recheck_words) is called
Force ==
    /\ probe.forced = <<>>
    /\ probe' = [probe EXCEPT !.forced =
                    <<force_recheck_by_text(probe.verdict, probe.comments,
                                            probe.recheck_words)>>]
    /\ UNCHANGED <<batch, writes, blobs, zips, clients, requests, service>>

InitWords ==
    /\ files = <<>>
    /\ api_key = <<>>
    /\ thresholds = NoKeys
    /\ defaults = NoKeys
    /\ nano = [model_name |-> <<>>, has_client |-> FALSE]
    /\ pc = "entry"
    /\ fut = <<>>
    /\ results = <<>>
    /\ summary = <<>>
    /\ writes = {}
    /\ blobs = <<>>
    /\ zips = NoKeys
    /\ clients = <<>>
    /\ requests = {}
    /\ probe \in Probes
    /\ InitService

NextWords ==
    \/ Refine
    \/ Force

SpecWords == InitWords /\ [][NextWords]_vars

\* ------------------------------------------------- ZIP export (346-363)
\* os.path.exists(os.path.join(base_dir, name))
Exists(base_dir, name) == \E w \in base_dir : w.file = name

\* lines 346-357: for every result with the wanted verdict the name is built
\* from the index and the result's file entry, and the file of that name is
\* added if it exists; the archive is modelled by the paths it was filled from
zip_common(base_dir, rs, want) ==
    LET name(r) == Fmt04(r.index) \o <<95>> \o r.file
    IN  {name(rs[n]) : n \in {m \in 1..Len(rs) : /\ rs[m].verdict = want
                                                 /\ Exists(base_dir, name(rs[m]))}}

export_zip_ng(base_dir, rs) == zip_common(base_dir, rs, "ng")

export_zip_ok(base_dir, rs) == zip_common(base_dir, rs, "ok")

\* the caller exports what analyze_headless returned (web application, 396)
ExportNg ==
    /\ pc = "returned"
    /\ "ng" \notin DOMAIN zips
    /\ zips' = zips @@ ("ng" :> export_zip_ng(writes, results))
    /\ UNCHANGED <<batch, writes, blobs, clients, requests, probe, service>>

ExportOk ==
    /\ pc = "returned"
    /\ "ok" \notin DOMAIN zips
    /\ zips' = zips @@ ("ok" :> export_zip_ok(writes, results))
    /\ UNCHANGED <<batch, writes, blobs, clients, requests, probe, service>>

NextExport ==
    \/ Next
    \/ ExportNg
    \/ ExportOk

SpecExport == InitLive /\ [][NextExport]_vars

\* batches of up to MaxPoolFiles images, none of which decodes: every
\* pipeline ends at line 253, so no remote call is made
PoolBatches ==
    {[k \in 1..n |-> [name |-> NameA, img |-> "garbage"]] : n \in 0..MaxPoolFiles}

InitPool ==
    /\ files \in PoolBatches
    /\ api_key = KeySk
    /\ thresholds = BatchThresholds
    /\ defaults = BatchDefaults
    /\ InitCommon

NextPool ==
    \/ Enter
    \/ \E i \in Indices : Start(i)
    \/ \E i \in Indices : Normalize(i)
    \/ \E i \in Indices : Collect(i)
    \/ Unwind
    \/ Return

SpecPool == InitPool /\ [][NextPool]_vars

\* --------------------------------------------- file names of _analyze_one
\* names an uploaded file may carry: a.jpg, none, 5_a.jpg, _a.jpg,
\* 0001_a.jpg, dir/a.jpg
BlobNames ==
    { NameA, <<>>,
      <<53, 95, 97, 46, 106, 112, 103>>,
      <<95, 97, 46, 106, 112, 103>>,
      <<48, 48, 48, 49, 95, 97, 46, 106, 112, 103>>,
      <<100, 105, 114, 47, 97, 46, 106, 112, 103>> }

\* indices of one to five digits
BlobIndices == {0, 1, 1234, 12345}

\* two images of one job, at different indices
BlobPairs ==
    { <<[index |-> ij[1], name |-> n, saved |-> FALSE],
        [index |-> ij[2], name |-> m, saved |-> FALSE]>> :
        ij \in {p \in BlobIndices \X BlobIndices : p[1] # p[2]},
        n \in BlobNames, m \in BlobNames }

\* lines 235-238 and 289-296 of the pipeline of blobs[k]: the output name is
\* built and the image written under it
SaveImage(k) ==
    /\ ~blobs[k].saved
    /\ writes' = Saved(writes, blobs[k].index, blobs[k].name)
    /\ blobs' = [blobs EXCEPT ![k].saved = TRUE]
    /\ UNCHANGED <<batch, zips, clients, requests, probe, service>>

InitNames ==
    /\ files = <<>>
    /\ api_key = <<>>
    /\ thresholds = NoKeys
    /\ defaults = NoKeys
    /\ nano = [model_name |-> <<>>, has_client |-> FALSE]
    /\ pc = "entry"
    /\ fut = <<>>
    /\ results = <<>>
    /\ summary = <<>>
    /\ writes = {}
    /\ blobs \in BlobPairs
    /\ zips = NoKeys
    /\ clients = <<>>
    /\ requests = {}
    /\ probe = <<>>
    /\ InitService

NextNames == \E k \in DOMAIN blobs : SaveImage(k)

SpecNames == InitNames /\ [][NextNames]_vars

\* -------------------------------------------- services.py, db.py, the clock
\* f"{n:02d}"
Fmt02(n) == ZeroPad(Digits(n), 2)

\* the clock reads 08:59:59 at tick 0
StartOfClock == 8 * 3600 + 59 * 60 + 59

\* the whole seconds of the time of day at tick t: what isoformat(timespec=
\* "seconds") and strftime keep of datetime.now()
Second(t) == StartOfClock + (t \div TicksPerSecond)

Today == <<50, 48, 50, 54, 49, 49, 48, 52>>                     \* 20261104

\* line 385: datetime.now().strftime("J%Y%m%dT%H%M%S") at tick t
strftime(t) ==
    LET sec == Second(t)
    IN  <<74>> \o Today \o <<84>> \o Fmt02(sec \div 3600) \o Fmt02((sec \div 60) % 60)
            \o Fmt02(sec % 60)

\* month_key() (db.py 32-34)
month_key == "202611"

Tenants == {"alice", "bob"}

PropName == "room-101"

CallIds == 1..MaxCalls

\* what analyze_headless returns for a batch of n images (lines 387-395): one
\* result per index, in index order, each with one of the three verdicts
ResultLists(n) ==
    { [k \in 1..n |-> [index |-> k - 1, file |-> SafeName(k - 1, NameA),
                       verdict |-> v[k], stage |-> "nano"]] :
        v \in [1..n -> {"ok", "ng", "unknown"}] }

\* the clock advances
Tick ==
    /\ now < MaxTicks
    /\ now' = now + 1
    /\ UNCHANGED <<batch, writes, direct, calls, usage_monthly, run_logs, jobs, job_results>>

\* services.py 28-39: run_analysis_and_record is entered by a session for a
\* batch of images; invocations are numbered in the order they begin
Begin(c) ==
    /\ calls[c].st = "idle"
    /\ \A d \in CallIds : d < c => calls[d].st # "idle"
    /\ \E uid \in Tenants, n \in 0..MaxImages :
         calls' = [calls EXCEPT ![c] =
                      [@ EXCEPT !.st = "entered", !.uid = uid, !.images = n,
                                !.ts_start = Second(now)]]
    /\ UNCHANGED <<batch, writes, direct, now, usage_monthly, run_logs, jobs, job_results>>

\* lines 375-385 of analyze_headless: the job identifier is taken off the clock
TakeJobId(c) ==
    /\ calls[c].st = "entered"
    /\ calls' = [calls EXCEPT ![c] = [@ EXCEPT !.st = "pool", !.job_id = strftime(now)]]
    /\ UNCHANGED <<batch, writes, direct, now, usage_monthly, run_logs, jobs, job_results>>

\* lines 387-417 and services.py 47: the batch run returns its result list
Analyzed(c) ==
    /\ calls[c].st = "pool"
    /\ \E rs \in ResultLists(calls[c].images) :
         calls' = [calls EXCEPT ![c] =
                      [@ EXCEPT !.st = "analyzed", !.results = rs, !.ts_end = Second(now)]]
    /\ UNCHANGED <<batch, writes, direct, now, usage_monthly, run_logs, jobs, job_results>>

\* the batch run raises (an image that does not decode): the exception leaves
\* run_analysis_and_record and nothing is recorded
Raised(c) ==
    /\ calls[c].st = "pool"
    /\ calls[c].images > 0
    /\ calls' = [calls EXCEPT ![c].st = "raised"]
    /\ UNCHANGED <<batch, writes, direct, now, usage_monthly, run_logs, jobs, job_results>>

\* db.py 54-65: the upsert of add_monthly_usage
add_monthly_usage(tbl, tenant, prop, ym, add_images, add_runs) ==
    LET key == <<tenant, prop, ym>>
        old == IF key \in DOMAIN tbl THEN tbl[key] ELSE [images_used |-> 0, runs_used |-> 0]
    IN  (key :> [images_used |-> old.images_used + Max(0, add_images),
                 runs_used   |-> old.runs_used + Max(0, add_runs)]) @@ tbl

\* services.py 51
AddUsage(c) ==
    /\ calls[c].st = "analyzed"
    /\ usage_monthly' = add_monthly_usage(usage_monthly, calls[c].uid, PropName, month_key,
                                          calls[c].images, 1)
    /\ calls' = [calls EXCEPT ![c].st = "counted"]
    /\ UNCHANGED <<batch, writes, direct, now, run_logs, jobs, job_results>>

\* services.py 11-26 and 54: the log file <uid>/<yymm>/<prop>/<job_id>.json is
\* written, replacing a file of that name
SaveRunLog(c) ==
    /\ calls[c].st = "counted"
    /\ run_logs' = (<<calls[c].uid, calls[c].job_id>> :>
                        [images  |-> calls[c].images,
                         ok      |-> CountVerdict(calls[c].results, "ok"),
                         ng      |-> CountVerdict(calls[c].results, "ng"),
                         unknown |-> CountVerdict(calls[c].results, "unknown")]) @@ run_logs
    /\ calls' = [calls EXCEPT ![c].st = "logged"]
    /\ UNCHANGED <<batch, writes, direct, now, usage_monthly, jobs, job_results>>

\* db.py 97-104: INSERT OR REPLACE on the primary key job_id
write_job(tbl, tenant, prop, job_id, ym, ts_start, ts_end, images, ok, ng, unknown) ==
    (job_id :> [tenant |-> tenant, property |-> prop, ym |-> ym, ts_start |-> ts_start,
                ts_end |-> ts_end, images |-> images, ok |-> ok, ng |-> ng,
                unknown |-> unknown]) @@ tbl

\* services.py 57-60
WriteJob(c) ==
    /\ calls[c].st = "logged"
    /\ jobs' = write_job(jobs, calls[c].uid, PropName, calls[c].job_id, month_key,
                         calls[c].ts_start, calls[c].ts_end, calls[c].images,
                         CountVerdict(calls[c].results, "ok"),
                         CountVerdict(calls[c].results, "ng"),
                         CountVerdict(calls[c].results, "unknown"))
    /\ calls' = [calls EXCEPT ![c].st = "job"]
    /\ UNCHANGED <<batch, writes, direct, now, usage_monthly, run_logs, job_results>>

\* db.py 106-123: nothing for an empty list, else one plain INSERT per result
write_job_results(tbl, job_id, rs) ==
    tbl \o [k \in 1..Len(rs) |->
               [job_id |-> job_id, idx |-> rs[k].index, file |-> rs[k].file,
                verdict |-> rs[k].verdict, stage |-> rs[k].stage]]

\* services.py 61-63
WriteJobResults(c) ==
    /\ calls[c].st = "job"
    /\ job_results' = write_job_results(job_results, calls[c].job_id, calls[c].results)
    /\ calls' = [calls EXCEPT ![c].st = "recorded"]
    /\ UNCHANGED <<batch, writes, direct, now, usage_monthly, run_logs, jobs>>

\* sessions of the web application invoking the service, at any times
InitJobs ==
    /\ files = <<>>
    /\ api_key = <<>>
    /\ thresholds = NoKeys
    /\ defaults = NoKeys
    /\ InitCommon

NextJobs ==
    \/ Tick
    \/ \E c \in CallIds : Begin(c)
    \/ \E c \in CallIds : TakeJobId(c)
    \/ \E c \in CallIds : Analyzed(c)
    \/ \E c \in CallIds : Raised(c)
    \/ \E c \in CallIds : AddUsage(c)
    \/ \E c \in CallIds : SaveRunLog(c)
    \/ \E c \in CallIds : WriteJob(c)
    \/ \E c \in CallIds : WriteJobResults(c)

SpecJobs == InitJobs /\ [][NextJobs]_vars

\* db.py 36-52: the row of (tenant, prop, ym), inserted with zeros if missing
get_monthly_usage(tbl, tenant, prop, ym) ==
    LET key == <<tenant, prop, ym>>
        new == IF key \in DOMAIN tbl THEN tbl
               ELSE (key :> [images_used |-> 0, runs_used |-> 0]) @@ tbl
    IN  [images_used |-> new[key].images_used, runs_used |-> new[key].runs_used,
         tbl |-> new]

\* cleaning_check_webapp.py 262-302: a session presses the run button with n
\* uploaded images (the button is disabled without images); the usage of the
\* month is read and compared with the quota, and the handler stops or goes
\* on to run_analysis_and_record (an API key being configured)
RunButton(c) ==
    /\ calls[c].st = "idle"
    /\ \A d \in CallIds : d < c => calls[d].st # "idle"
    /\ \E uid \in Tenants, n \in 1..MaxImages :
         LET used == get_monthly_usage(usage_monthly, uid, PropName, month_key)
         IN  /\ usage_monthly' = used.tbl
             /\ calls' = [calls EXCEPT ![c] =
                   IF used.runs_used + 1 > RunsQuota \/ used.images_used + n > ImagesQuota
                   THEN [@ EXCEPT !.st = "stopped", !.uid = uid, !.images = n]
                   ELSE [@ EXCEPT !.st = "entered", !.uid = uid, !.images = n,
                                  !.ts_start = Second(now)]]
    /\ UNCHANGED <<batch, writes, direct, now, run_logs, jobs, job_results>>

\* the sessions of the web application, each checking the quota before it
\* invokes the service
NextQuota ==
    \/ \E c \in CallIds : RunButton(c)
    \/ \E c \in CallIds : TakeJobId(c)
    \/ \E c \in CallIds : Analyzed(c)
    \/ \E c \in CallIds : Raised(c)
    \/ \E c \in CallIds : AddUsage(c)
    \/ \E c \in CallIds : SaveRunLog(c)
    \/ \E c \in CallIds : WriteJob(c)
    \/ \E c \in CallIds : WriteJobResults(c)

SpecQuota == InitJobs /\ [][NextQuota]_vars

\* ------------------------------------------------------------ properties
Returned == pc = "returned"

\* the results of the futures that ran to their end
DoneResults == {fut[i].out[1] : i \in {j \in DOMAIN fut : fut[j].st = "done"}}

\* the positions of the returned list holding index i
Positions(i) == {n \in 1..Len(results) : results[n].index = i}

\* some non-empty word of ws occurs in txt
AnyLiteralIn(ws, txt) == \E n \in 1..Len(ws) : Len(ws[n]) > 0 /\ Contains(ws[n], txt)

\* the configured recheck words, as a list
RecheckList == IF RecheckWords(thresholds).t = "list" THEN RecheckWords(thresholds).v ELSE <<>>

\* C1: when analyze_headless returns, ok + ng + unknown is the number of
\* input files, every verdict is ok, ng or unknown, and every index of
\* [0, batch size) is in the result list exactly once.
C1_CountsPartitionBatch ==
    Returned =>
        /\ summary[1].ok + summary[1].ng + summary[1].unknown = N
        /\ \A n \in 1..Len(results) : results[n].verdict \in {"ok", "ng", "unknown"}
        /\ \A i \in Indices : Cardinality(Positions(i)) = 1
        /\ Len(results) = N

\* a returned batch of two images with the same verdict, collected in reverse
C1_Witness ==
    /\ Returned
    /\ N = 2
    /\ summary[1].ok = 2
    /\ fut[1].order = 1

\* C2: a decode error on one image does not abort the batch: the future of
\* an undecodable image hands over a result, analyze_headless goes on to
\* return, and the result list then holds that image's index.
C2_DecodeErrorIsolated ==
    \A i \in DOMAIN fut :
        (files[i + 1].img # "jpeg" /\ Collected(i)) =>
            /\ pc \in {"pool", "returned"}
            /\ fut[i].st = "done"
            /\ Returned => Positions(i) # {}

\* C3: an image whose remote call failed on all three attempts ends with the
\* failure placeholder (no labels, scores {quality: 0}, the one comment
\* "nano失敗: <error>", no presence) and the verdict of the three stages on
\* it; its future holds a result, not an exception, and a returned batch
\* lists it.
C3_ExhaustedRetriesPlaceholder ==
    \A i \in DOMAIN fut :
        (fut[i].attempts = 3 /\ fut[i].last[1].k = "err") =>
            LET r == fut[i].out[1]
                c == <<110, 97, 110, 111, 22833, 25943, 58, 32>> \o fut[i].last[1].e
            IN  /\ fut[i].st = "done"
                /\ r.labels = <<>>
                /\ DOMAIN r.scores = {"quality"} /\ r.scores["quality"] = 0
                /\ r.comments = <<c>>
                /\ DOMAIN r.presence = {}
                /\ r.verdict = force_recheck_by_text(
                                  refine_verdict_by_text(
                                      ScoreVerdict(r.scores, ConfTh(thresholds, defaults)),
                                      <<c>>, OkWhitelist(defaults)),
                                  <<c>>, RecheckWords(thresholds))
                /\ Returned => \E n \in 1..Len(results) : results[n] = r

\* a returned batch of two images, the first of which failed three times
C3_Witness ==
    /\ Returned
    /\ N = 2
    /\ fut[0].attempts = 3
    /\ fut[0].last[1].k = "err"
    /\ fut[1].last[1].k = "ok"

\* C5: the returned list is in strictly ascending index order, whatever the
\* order in which the futures completed.
C5_ResultsAscending ==
    Returned =>
        \A n, m \in 1..Len(results) : n < m => results[n].index < results[m].index

\* a returned batch whose second image was handed over first
C5_Witness ==
    /\ Returned
    /\ N = 2
    /\ fut[1].order = 1
    /\ fut[0].order = 2

\* C6: at most 3 attempts per image; a success returns that response (the
\* result is built from it) after the failures before it; a third failure
\* raises the last exception; every failure before the third, a parse
\* failure included, is followed by another attempt.
C6_RetryPolicy ==
    \A i \in DOMAIN fut :
        /\ fut[i].attempts <= 3
        /\ (fut[i].st = "calling" /\ fut[i].attempts > 0) =>
               fut[i].last[1].k = "err" /\ fut[i].attempts < 3
        /\ (fut[i].st = "done" /\ fut[i].attempts > 0 /\ fut[i].last[1].k = "ok") =>
               /\ fut[i].ret[1] = [k |-> "return", v |-> fut[i].last[1].v]
               /\ fut[i].out[1].labels = fut[i].last[1].v.labels
               /\ fut[i].out[1].comments = NormComments(fut[i].last[1].v)
        /\ (fut[i].st = "done" /\ fut[i].attempts > 0 /\ fut[i].last[1].k = "err") =>
               /\ fut[i].attempts = 3
               /\ fut[i].ret[1] = [k |-> "raise", e |-> fut[i].last[1].e]

\* two failures, the second a parse failure, then a success on the third attempt
C6_Witness ==
    \E i \in DOMAIN fut :
        /\ fut[i].st = "done"
        /\ fut[i].attempts = 3
        /\ fut[i].last[1].k = "ok"
        /\ fut[i].ret[1].k = "return"

\* C7: with an empty or blank api key no remote call is made for any image
\* and every image that reaches the classification step gets the dry-run
\* placeholder (no labels, scores {quality: 0}, one comment, no presence);
\* a client with an empty model identifier is not available either.
C7_AvailabilityGate ==
    /\ ~available(OpenAIClient(<<>>, api_key))
    /\ Strip(api_key) = <<>> =>
         \A i \in DOMAIN fut :
            /\ fut[i].attempts = 0
            /\ fut[i].st # "calling"
            /\ fut[i].st = "done" =>
                 LET r == fut[i].out[1] IN
                 /\ r.labels = <<>>
                 /\ DOMAIN r.scores = {"quality"} /\ r.scores["quality"] = 0
                 /\ r.comments = <<DryRunComment>>
                 /\ DOMAIN r.presence = {}

\* a returned batch of two images under a blank key
C7_Witness ==
    /\ Returned
    /\ N = 2
    /\ api_key = <<32>>
    /\ \A i \in Indices : fut[i].st = "done" /\ fut[i].attempts = 0

\* C8: an index is in presence_evidence[key] exactly when that image's
\* presence value for the key is boolean true; each evidence list is
\* strictly ascending.
C8_PresenceEvidence ==
    Returned =>
        \A k \in AmenityKeys :
            LET ev == summary[1].presence_evidence[k] IN
            /\ \A n \in 1..Len(results) :
                 (\E m \in 1..Len(ev) : ev[m] = results[n].index)
                    <=> (k \in DOMAIN results[n].presence /\ results[n].presence[k] = "True")
            /\ \A n, m \in 1..Len(ev) : n < m => ev[n] < ev[m]

\* a returned batch with boolean true, false, null and non-boolean values
C8_Witness ==
    /\ Returned
    /\ N = 2
    /\ summary[1].presence_evidence["heater"] = <<0, 1>>
    /\ summary[1].presence_evidence["key"] = <<1>>
    /\ summary[1].presence_evidence["wifi"] = <<>>
    /\ "wifi" \in DOMAIN results[1].presence /\ results[1].presence["wifi"] = "False"
    /\ "wifi" \in DOMAIN results[2].presence /\ results[2].presence["wifi"] = "yes"
    /\ fut[1].order = 1

\* the joined comment text holds a cleanliness keyword and a negation or
\* positive term with at most 12 characters between the two, in either order
TermNearKeyword(txt) ==
    \E i \in 1..Len(txt) : \E w \in KW :
        /\ IsAt(txt, w, i)
        /\ \E j \in 1..Len(txt) : \E t \in NEG \cup POS :
             /\ IsAt(txt, t, j)
             /\ \/ j >= i + Len(w) /\ j - (i + Len(w)) <= 12
                \/ i >= j + Len(t) /\ i - (j + Len(t)) <= 12

\* C4: whenever the joined comments of an image hold a non-empty literal of
\* RECHECK_WHITELIST, its final verdict is "unknown", whatever the scores,
\* the threshold, the OK-whitelists and the keyword rules say.
C4_RecheckAlwaysWins ==
    \A r \in DoneResults :
        AnyLiteralIn(RecheckList, JoinComments(r.comments)) => r.verdict = "unknown"

\* the example of the specification: a score of 0.9, the comment
\* "要確認: 髪の毛あり", 要確認 in both whitelists
C4_Witness ==
    \E r \in DoneResults :
        /\ r.comments = <<TxRecheck>>
        /\ "hair_dust" \in DOMAIN r.scores /\ r.scores["hair_dust"] = 90
        /\ OkWhitelist(defaults) = <<WdRecheck>>
        /\ RecheckList = <<WdRecheck>>
        /\ r.verdict = "unknown"

\* C9: if the joined comments hold a literal of the combined OK-whitelist
\* (the global lines followed by the property's) and no recheck literal, the
\* final verdict is "ok", whatever the scores and the keywords.
C9_OkWhitelistForcesOk ==
    \A r \in DoneResults :
        ( /\ AnyLiteralIn(OkWhitelist(defaults), JoinComments(r.comments))
          /\ ~AnyLiteralIn(RecheckList, JoinComments(r.comments)) )
            => r.verdict = "ok"

\* 髪の毛が付着 with a score of 0.9 and 付着 whitelisted: a bare keyword and a
\* score above every threshold
C9_Witness ==
    \E r \in DoneResults :
        /\ r.comments = <<TxHair>>
        /\ "hair_dust" \in DOMAIN r.scores /\ r.scores["hair_dust"] = 90
        /\ OkWhitelist(defaults) = <<WdStuck>>
        /\ RecheckList = <<>>
        /\ r.verdict = "ok"

\* C10: if the joined comments hold a cleanliness keyword, no OK-whitelist
\* literal, no recheck literal, no positive phrase anywhere and no negation
\* or positive term within 12 characters of a keyword, the final verdict is
\* "ng", also when every score is below the threshold.
C10_BareKeywordIsNg ==
    \A r \in DoneResults :
        LET txt == JoinComments(r.comments) IN
        ( /\ \E w \in KW : Contains(w, txt)
          /\ ~AnyLiteralIn(OkWhitelist(defaults), txt)
          /\ ~AnyLiteralIn(RecheckList, txt)
          /\ ~\E t \in POS : Contains(t, txt)
          /\ ~TermNearKeyword(txt) )
            => r.verdict = "ng"

\* the example of the specification: 髪の毛が付着 with scores {quality: 0.0}
C10_Witness ==
    \E r \in DoneResults :
        /\ r.comments = <<TxHair>>
        /\ DOMAIN r.scores = {"quality"} /\ r.scores["quality"] = 0
        /\ OkWhitelist(defaults) = <<>>
        /\ RecheckList = <<>>
        /\ r.verdict = "ng"

\* every score of r is below the configured confidence threshold
ScoresBelowThreshold(r) ==
    \A k \in DOMAIN r.scores : r.scores[k] < ConfTh(thresholds, defaults)

\* C11: for the comments ["髪の毛は見当たりません"], scores with no value at or
\* above the threshold and empty OK and recheck whitelists, the final
\* verdict is "ok".
C11_NegatedKeywordIsOk ==
    \A r \in DoneResults :
        ( /\ r.comments = <<TxNotSeen>>
          /\ ScoresBelowThreshold(r)
          /\ OkWhitelist(defaults) = <<>>
          /\ RecheckList = <<>> )
            => r.verdict = "ok"

\* the threshold in force, read off the two configuration mappings
ConfiguredThreshold ==
    IF "conf_th" \in DOMAIN defaults THEN defaults["conf_th"]
    ELSE IF "conf_th" \in DOMAIN thresholds THEN thresholds["conf_th"]
    ELSE 60

\* C12: when the comments hold no OK-whitelist literal, no keyword, no
\* positive phrase and no recheck literal, the final verdict is "ng" exactly
\* when some score is greater than or equal to the threshold (equality
\* included), else "ok"; the threshold is defaults.conf_th when present, else
\* thresholds.conf_th, else 0.6; an empty score mapping gives "ok".
C12_ScoreThresholdDecides ==
    \A r \in DoneResults :
        LET txt == JoinComments(r.comments) IN
        ( /\ ~AnyLiteralIn(OkWhitelist(defaults), txt)
          /\ ~\E w \in KW : Contains(w, txt)
          /\ ~\E t \in POS : Contains(t, txt)
          /\ ~AnyLiteralIn(RecheckList, txt) )
            => /\ r.verdict = IF \E k \in DOMAIN r.scores : r.scores[k] >= ConfiguredThreshold
                              THEN "ng" ELSE "ok"
               /\ DOMAIN r.scores = {} => r.verdict = "ok"

\* a score of exactly 0.6 under the default threshold, with a comment that
\* matches nothing
C12_Witness ==
    \E r \in DoneResults :
        /\ r.comments = <<TxBed>>
        /\ DOMAIN r.scores = {"quality"} /\ r.scores["quality"] = 60
        /\ "conf_th" \notin DOMAIN defaults
        /\ "conf_th" \notin DOMAIN thresholds
        /\ r.verdict = "ng"

\* the invocations whose job identifier has been taken
WithJobId == {c \in CallIds : calls[c].st \notin {"idle", "entered"}}

\* C13: any two invocations of analyze_headless, started at any times (in the
\* same clock second included, one after the other or concurrently), get
\* different job identifiers.
C13_JobIdsUnique ==
    \A c, d \in WithJobId : c # d => calls[c].job_id # calls[d].job_id

\* the invocations that have returned and those still under way
Recorded == {c \in CallIds : calls[c].st = "recorded"}
UnderWay == {c \in CallIds : calls[c].st \notin {"idle", "raised", "recorded"}}

\* C14: after any sequence of run_analysis_and_record invocations the
\* job_results table holds, for every job_id, at most one row per image
\* index, and the jobs table holds exactly one row per completed invocation.
C14_NoDuplicateRows ==
    /\ \A p, q \in 1..Len(job_results) :
         (p # q /\ job_results[p].job_id = job_results[q].job_id)
            => job_results[p].idx # job_results[q].idx
    /\ UnderWay = {} => Cardinality(DOMAIN jobs) = Cardinality(Recorded)

\* C15: at every moment of a batch run at most min(8, batch size) pipelines
\* are in progress (started and not finished); the pool has at least one
\* worker, also for an empty batch, which returns an empty result list and
\* all-zero counts.
C15_BoundedConcurrency ==
    /\ Cardinality(InProgress) <= (IF N < 8 THEN N ELSE 8)
    /\ max_workers(N) >= 1
    /\ (Returned /\ N = 0) =>
          /\ results = <<>>
          /\ summary[1].ok = 0 /\ summary[1].ng = 0 /\ summary[1].unknown = 0
          /\ \A st \in {"nano", "mini", "full"} : summary[1].counts_by_stage[st] = 0

\* a batch of more than 8 images with 8 pipelines in progress and one waiting
C15_Witness ==
    /\ N > 8
    /\ Cardinality(InProgress) = 8
    /\ \E i \in Indices : fut[i].st = "queued"

\* C16: within one job two different image indices never produce the same
\* output file name, whatever the two original names (equal names, names
\* starting with digits and an underscore, indices of five or more digits):
\* every file of the scratch directory is written by one pipeline only.
C16_DistinctOutputFiles ==
    \A w1, w2 \in writes : w1.file = w2.file => w1.by = w2.by

\* both images saved: index 1234 under the name 5_a.jpg and index 12345
\* under the name _a.jpg
C16_Witness ==
    /\ Len(blobs) = 2
    /\ blobs[1].saved /\ blobs[2].saved
    /\ blobs[1].index = 1234 /\ blobs[1].name = <<53, 95, 97, 46, 106, 112, 103>>
    /\ blobs[2].index = 12345 /\ blobs[2].name = <<95, 97, 46, 106, 112, 103>>
    /\ Cardinality(writes) = 2

C18_UntrustedResponseIsolated ==
    \A i \in DOMAIN fut :
        (fut[i].attempts > 0 /\ fut[i].st # "calling" /\ fut[i].last[1].k = "ok") =>
            /\ fut[i].st = "done"
            /\ pc \notin {"raising", "raised"}

\* C19: a delay is slept only between a failed attempt and the next attempt:
\* 1 time unit before the second attempt, 2 before the third, every delay
\* between 1 and 30; no delay follows the third attempt or a successful one.
C19_Backoff ==
    \A i \in DOMAIN fut :
        LET w == fut[i].waits IN
        /\ Len(w) = IF fut[i].st = "calling" THEN fut[i].attempts
                    ELSE IF fut[i].attempts > 0 THEN fut[i].attempts - 1
                    ELSE 0
        /\ Len(w) <= 2
        /\ \A k \in 1..Len(w) : w[k] = (IF k = 1 THEN 1 ELSE 2) /\ w[k] >= 1 /\ w[k] <= 30

\* a third failure after the delays 1 and 2, and a success on the second
\* attempt after the delay 1
C19_Witness ==
    /\ DOMAIN fut = {0, 1}
    /\ fut[0].st = "done" /\ fut[0].attempts = 3 /\ fut[0].last[1].k = "err"
    /\ fut[0].waits = <<1, 2>>
    /\ fut[1].st = "done" /\ fut[1].attempts = 2 /\ fut[1].last[1].k = "ok"
    /\ fut[1].waits = <<1>>

\* C20: with no OK-whitelist literal and no recheck literal in the comments,
\* the final verdict is "ok" whenever the space-joined comment text holds a
\* keyword followed by a negation term, or a negation term followed by a
\* keyword, or a keyword and a positive term in either order, with at most
\* 12 characters between the two.
C20_NearNegationIsOk ==
    \A r \in DoneResults :
        LET txt == JoinComments(r.comments) IN
        ( /\ ~AnyLiteralIn(OkWhitelist(defaults), txt)
          /\ ~AnyLiteralIn(RecheckList, txt)
          /\ TermNearKeyword(txt) )
            => r.verdict = "ok"

\* C21: if a positive-cleanliness phrase occurs anywhere in the joined
\* comments and no recheck literal does, the final verdict is "ok", also
\* with a bare keyword at any distance and a score at or above the
\* threshold; a verdict "ng" next to a keyword therefore means that no
\* positive phrase occurs in the comments.
C21_PositivePhraseBeatsKeyword ==
    \A r \in DoneResults :
        LET txt == JoinComments(r.comments) IN
        /\ ( (\E t \in POS : Contains(t, txt)) /\ ~AnyLiteralIn(RecheckList, txt) )
              => r.verdict = "ok"
        /\ ( r.verdict = "ng" /\ (\E w \in KW : Contains(w, txt)) )
              => ~\E t \in POS : Contains(t, txt)

\* 良好 and, 14 characters later, the keyword 埃, with a score of 0.9 and
\* no whitelist of either kind
C21_Witness ==
    \E r \in DoneResults :
        /\ r.comments = <<TxGood, TxFarDust>>
        /\ "hair_dust" \in DOMAIN r.scores /\ r.scores["hair_dust"] = 90
        /\ ~TermNearKeyword(JoinComments(r.comments))
        /\ OkWhitelist(defaults) = <<>>
        /\ RecheckList = <<>>
        /\ r.verdict = "ok"

\* what _analyze_one of image i works on: the dry-run response when no
\* remote call was made, else what analyze_one returned for this image or
\* the placeholder for the exception it raised
OwnResponse(i) ==
    IF fut[i].ret = <<>> THEN DryRunResponse
    ELSE IF fut[i].ret[1].k = "return" THEN fut[i].ret[1].v
    ELSE FailedResponse(fut[i].ret[1].e)

\* C22: the ImageResult of a finished pipeline is determined, field by
\* field, by the image's own index and file name, the outcome of its own
\* remote calls and the batch configuration, in every state each
\* interleaving of the workers reaches and whatever became of the other
\* images; the returned list holds these very results.
C22_PipelinesIndependent ==
    /\ \A i \in DOMAIN fut : fut[i].st = "done" =>
         LET d == OwnResponse(i)
             r == fut[i].out[1]
         IN  /\ r.index = i
             /\ r.file = SafeName(i, files[i + 1].name)
             /\ r.labels = d.labels
             /\ r.scores = NormScores(d)
             /\ r.comments = NormComments(d)
             /\ r.presence = NormPresence(d)
             /\ r.stage = "nano"
             /\ r.verdict = FinalVerdict(r.scores, r.comments, thresholds, defaults)
    /\ \A n \in 1..Len(results) :
         /\ results[n].index \in DOMAIN fut
         /\ fut[results[n].index].out = <<results[n]>>

\* image 1 received 髪の毛が付着 at its first call after image 0 had received
\* 清潔 and finished, and image 1 finished last
C22_Witness ==
    /\ Returned /\ N = 2
    /\ fut[0].order = 1 /\ fut[1].order = 2
    /\ results[1].comments = <<TxClean>> /\ results[1].verdict = "ok"
    /\ results[2].comments = <<TxHair>> /\ results[2].verdict = "ng"
    /\ fut[1].attempts = 1 /\ fut[0].attempts = 3

\* image 0 does not decode and its pipeline ends with an exception, image 1
\* has its result nevertheless
C22_WitnessFailure ==
    /\ pc = "raised" /\ N = 2
    /\ fut[0].st = "failed" /\ files[1].img = "garbage"
    /\ fut[1].st = "done" /\ fut[1].out[1].comments = <<TxHair>>

\* the remote calls made so far for image i, the one in flight included
CallsMade(i) == fut[i].attempts + (IF fut[i].st = "calling" THEN 1 ELSE 0)

RECURSIVE SumCalls(_)
SumCalls(n) == IF n = 0 THEN 0 ELSE CallsMade(n - 1) + SumCalls(n - 1)

\* analyze_headless has returned or raised
Left == pc \in {"returned", "raised"}

\* the steps image i can still take: to be started, to be normalised, its
\* remaining remote calls, to be collected
Rank(i) ==
    IF Collected(i) THEN 0
    ELSE IF Finished(i) THEN 1
    ELSE IF fut[i].st = "calling" THEN 1 + MaxAttempts - fut[i].attempts
    ELSE IF fut[i].st = "running" THEN 2 + MaxAttempts
    ELSE 3 + MaxAttempts

RECURSIVE SumRank(_)
SumRank(n) == IF n = 0 THEN 0 ELSE Rank(n - 1) + SumRank(n - 1)

\* the steps the invocation can still take
Variant ==
    CASE pc = "entry"   -> (3 + MaxAttempts) * N + 3
      [] pc = "pool"    -> SumRank(N) + 2
      [] pc = "raising" -> SumRank(N) + 1
      [] OTHER          -> 0

\* C23: analyze_headless cannot stop before it has returned or raised: until
\* then a step is possible, and every step lowers a variant, so that with
\* every remote call ending and the threads scheduled it returns or raises;
\* it does so only after the pipeline of every submitted image has finished,
\* with a result or with an exception of its own; and at no time have more
\* than 3 * N remote calls been made for a batch of N images.
C23_Termination ==
    /\ <>Left
    /\ [](Left \/ ENABLED Next)
    /\ [][Variant' < Variant]_vars
    /\ [](Left => \A i \in Indices : Finished(i))
    /\ [](DOMAIN fut # {} => SumCalls(N) <= 3 * N)

\* two images: the first exhausts its three calls, the second does not
\* decode; the exception of the second is collected first, and the pool is
\* left only once the first has finished as well, after three calls
C23_Witness ==
    /\ pc = "raised" /\ N = 2
    /\ fut[1].st = "failed" /\ fut[1].order = 1
    /\ fut[0].st = "done" /\ fut[0].attempts = 3 /\ fut[0].order = 0
    /\ SumCalls(N) = 3

\* C24: every ImageResult a pipeline produces has stage "nano"; a returned
\* summary counts all N images of the batch under counts_by_stage.nano and
\* none under "mini" or "full"; the second client is not available with any
\* key.
C24_StageIsNano ==
    /\ \A i \in DOMAIN fut : fut[i].out # <<>> => fut[i].out[1].stage = "nano"
    /\ Returned =>
         /\ summary[1].counts_by_stage["nano"] = N
         /\ summary[1].counts_by_stage["mini"] = 0
         /\ summary[1].counts_by_stage["full"] = 0
    /\ ~available(mini)

\* a returned batch of two images under a usable key: one result from a
\* response, one placeholder after three failed calls
C24_Witness ==
    /\ Returned /\ N = 2
    /\ api_key = KeySk /\ available(nano)
    /\ fut[0].ret # <<>> /\ fut[0].ret[1].k = "return"
    /\ fut[1].ret # <<>> /\ fut[1].ret[1].k = "raise"
    /\ summary[1].counts_by_stage["nano"] = 2

\* the literals of thresholds["OK_WHITELIST"], when it is a list
OkWhitelistPassed ==
    IF "OK_WHITELIST" \in DOMAIN thresholds /\ thresholds["OK_WHITELIST"].t = "list"
    THEN thresholds["OK_WHITELIST"].v
    ELSE <<>>

\* C25: once the invocation has completed its configuration, the combined
\* OK-whitelist that its pipelines apply holds every non-empty literal of
\* the OK_WHITELIST passed in thresholds and every line of the property's
\* ok_whitelist, also when defaults came with an ok_whitelist_global entry
\* (as it does after an earlier invocation with the same mapping).
C25_CombinedWhitelistComplete ==
    pc # "entry" =>
        LET combined == OkWhitelist(defaults)
            own      == split_lines(Get(defaults, "ok_whitelist", <<>>))
        IN  /\ \A n \in 1..Len(OkWhitelistPassed) :
                 Len(OkWhitelistPassed[n]) > 0 =>
                     \E m \in 1..Len(combined) : combined[m] = OkWhitelistPassed[n]
            /\ \A n \in 1..Len(own) : \E m \in 1..Len(combined) : combined[m] = own[n]

\* the saved images of the returned results with verdict v that exist in the
\* scratch directory
SavedWithVerdict(v) ==
    {results[n].file : n \in {m \in 1..Len(results) :
                                /\ results[m].verdict = v
                                /\ Exists(writes, results[m].file)}}

\* C26: the archive export_zip_ng returns for the results and the scratch
\* directory of a returned batch is filled from the saved image of every
\* "ng" result whose file exists and from nothing else; export_zip_ok
\* likewise for "ok".
C26_ZipHoldsVerdictFiles ==
    \A v \in DOMAIN zips : zips[v] = SavedWithVerdict(v)

\* w occurs in txt when the letters A-Z of txt are read as a-z (w is lower case)
OccursIgnoringCase(w, txt) ==
    \E i \in 1..(Len(txt) - Len(w) + 1) :
        \A k \in 1..Len(w) : txt[i + k - 1] \in {w[k], w[k] - 32}

\* C27: a request sent to the backend carries a temperature, and then 0.2,
\* exactly if its model name holds neither "nano" nor "mini" in any
\* spelling of upper and lower case; every request analyze_headless makes
\* names the model gpt-5-nano and carries no temperature.
C27_TemperatureByModel ==
    /\ \A r \in requests :
         /\ "temperature" \in DOMAIN r
              <=> ~(OccursIgnoringCase(Nano, r.model) \/ OccursIgnoringCase(Mini, r.model))
         /\ "temperature" \in DOMAIN r => r.temperature = 20
    /\ clients = <<>> =>
         \A r \in requests : r.model = ModelNano /\ "temperature" \notin DOMAIN r

\* GPT-5-NANO was called without a temperature, gpt-5 (built from " gpt-5 ")
\* with it
C27_Witness ==
    /\ \E r \in requests : r.model = <<71, 80, 84, 45, 53, 45, 78, 65, 78, 79>>
                           /\ "temperature" \notin DOMAIN r
    /\ \E r \in requests : r.model = <<103, 112, 116, 45, 53>>
                           /\ "temperature" \in DOMAIN r /\ r.temperature = 20

\* a batch of two images whose three remote calls have all been sent for the
\* model gpt-5-nano
C27_WitnessBatch ==
    /\ clients = <<>> /\ N = 2 /\ Returned
    /\ SumCalls(N) = 3
    /\ requests = {[model |-> ModelNano, response_format |-> "json_object"]}

\* C28: for every (user, property, month) the recorded runs never exceed the
\* runs quota and the recorded images never exceed the images quota, however
\* the sessions' quota checks and recordings interleave.
C28_QuotaNeverExceeded ==
    \A key \in DOMAIN usage_monthly :
        /\ usage_monthly[key].runs_used <= RunsQuota
        /\ usage_monthly[key].images_used <= ImagesQuota

\* C29: when analyze_headless has returned, the thresholds and the defaults
\* the caller passed (BatchThresholds and the non-empty dict BatchDefaults,
\* which "defaults or {}" keeps as the very object) hold what they held
\* before the call.
C29_ConfigurationUnchanged ==
    Returned => thresholds = BatchThresholds /\ defaults = BatchDefaults

\* stages 2a-2d of the text refinement: what is left of it without a whitelist
KeywordRules(verdict, txt) ==
    IF Search(NEG_AFTER, txt) \/ Search(NEG_BEFORE, txt) \/ Search(POS_NEAR, txt)
       \/ Search(POS_ANY, txt)
    THEN "ok"
    ELSE IF Search(ANY_KW, txt) THEN "ng"
    ELSE verdict

\* C30: an empty entry of a whitelist matches no comment text.
\* refine_verdict_by_text answers "ok" by whitelist only for a non-empty
\* entry that occurs in the joined comments and otherwise as the keyword
\* rules do; force_recheck_by_text answers "unknown" only for a non-empty
\* entry that occurs, and otherwise (only empty entries, an empty, missing or
\* null list, an empty comment list) the verdict it was given.
C30_EmptyEntriesMatchNothing ==
    probe # <<>> =>
        LET txt == JoinComments(probe.comments)
            rw  == IF probe.recheck_words.t = "list" THEN probe.recheck_words.v ELSE <<>>
        IN  /\ probe.refined # <<>> =>
                 probe.refined[1] = IF AnyLiteralIn(probe.ok_whitelist, txt) THEN "ok"
                                    ELSE KeywordRules(probe.verdict, txt)
            /\ probe.forced # <<>> =>
                 probe.forced[1] = IF AnyLiteralIn(rw, txt) THEN "unknown"
                                   ELSE probe.verdict

\* the verdict "ng", no comments at all, both whitelists holding just the
\* empty string: both functions hand "ng" back
C30_Witness ==
    /\ probe # <<>>
    /\ probe.verdict = "ng" /\ probe.comments = <<>>
    /\ probe.ok_whitelist = << <<>> >>
    /\ probe.recheck_words = PyList(<< <<>> >>)
    /\ probe.refined = <<"ng">> /\ probe.forced = <<"ng">>

\* the comment 髪の毛が付着 and the verdict "ok" with the same whitelists: the
\* bare keyword decides, the recheck leaves the verdict alone
C30_WitnessKeyword ==
    /\ probe # <<>>
    /\ probe.verdict = "ok" /\ probe.comments = <<TxHair>>
    /\ probe.ok_whitelist = << <<>>, <<>> >>
    /\ probe.recheck_words = PyNone
    /\ probe.refined = <<"ng">> /\ probe.forced = <<"ok">>

\* the images whose pipeline ran to its end on a placeholder: the dry-run
\* response of the availability gate, or the failure response after the
\* last retry
Unanalysed ==
    {i \in DOMAIN fut : /\ fut[i].st = "done"
                        /\ \/ fut[i].ret = <<>>
                           \/ fut[i].ret[1].k = "raise"}

\* C31: an image that was not analysed (skipped by the availability gate, or
\* failed after all retries) has the verdict "ok" and is counted under ok in
\* the summary whenever the threshold is above 0 and its single placeholder
\* comment holds no cleanliness keyword and no recheck literal.  The failure
\* text is under the text rules like any comment: a recheck literal in the
\* comment gives "unknown", and a keyword that no whitelist literal, positive
\* phrase or nearby negation overrides gives "ng".
C31_UnanalysedImageVerdict ==
    \A i \in Unanalysed :
        LET r   == fut[i].out[1]
            txt == JoinComments(r.comments)
            kw  == \E w \in KW : Contains(w, txt)
            rc  == AnyLiteralIn(RecheckList, txt)
        IN  /\ Len(r.comments) = 1
            /\ (ConfTh(thresholds, defaults) > 0 /\ ~kw /\ ~rc) =>
                  /\ r.verdict = "ok"
                  /\ Returned =>
                       /\ \E n \in 1..Len(results) : results[n] = r
                       /\ summary[1].ok =
                            Cardinality({n \in 1..Len(results) : results[n].verdict = "ok"})
            /\ rc => r.verdict = "unknown"
            /\ ( /\ kw /\ ~rc
                 /\ ~AnyLiteralIn(OkWhitelist(defaults), txt)
                 /\ ~\E t \in POS : Contains(t, txt)
                 /\ ~TermNearKeyword(txt) ) => r.verdict = "ng"

\* three calls ended with "timeout": the placeholder "nano失敗: timeout" under
\* the threshold 0.5 with no whitelist is "ok" and the summary counts it
C31_Witness ==
    /\ Returned /\ N = 1
    /\ Unanalysed = {0} /\ fut[0].attempts = 3
    /\ fut[0].ret # <<>> /\ fut[0].ret[1].k = "raise"
    /\ fut[0].ret[1].e = <<116, 105, 109, 101, 111, 117, 116>>
    /\ ConfTh(thresholds, defaults) = 50
    /\ RecheckList = <<>>
    /\ results[1].verdict = "ok" /\ summary[1].ok = 1

\* no key: the dry-run placeholder is "ok" and counted
C31_WitnessDryRun ==
    /\ Returned /\ N = 1 /\ api_key = <<>>
    /\ Unanalysed = {0} /\ fut[0].ret = <<>>
    /\ results[1].comments = <<DryRunComment>>
    /\ results[1].verdict = "ok" /\ summary[1].ok = 1

\* the last call ended with 髪の毛が付着: "ng" by keyword
C31_WitnessKeyword ==
    /\ Returned /\ Unanalysed = {0}
    /\ fut[0].ret # <<>> /\ fut[0].ret[1].k = "raise"
    /\ fut[0].ret[1].e = TxHair
    /\ results[1].verdict = "ng" /\ summary[1].ng = 1

\* the last call ended with 要確認, a recheck literal: "unknown"
C31_WitnessRecheck ==
    /\ Returned /\ Unanalysed = {0}
    /\ fut[0].ret # <<>> /\ fut[0].ret[1].k = "raise"
    /\ fut[0].ret[1].e = WdRecheck
    /\ RecheckList = <<WdRecheck>>
    /\ results[1].verdict = "unknown"

====
